---- MODULE Spec2Model ----
(***************************************************************************)
(* Session lifecycle of the support-thread bot: the attempt gate           *)
(* (src/src/handlers/messageHandler.ts), the session store                 *)
(* (src/src/database.ts) and the expiry sweeper and thread-deletion        *)
(* handler (src/src/handlers/threadHandler.ts).                            *)
(*                                                                         *)
(* Node runs the handlers on one thread: a handler runs without            *)
(* interruption from one await to the next.  Every action below is one     *)
(* such segment: the completion of the awaited call (its outcome chosen    *)
(* with \E) followed by the synchronous code up to the next await.         *)
(* Continuations of an already settled promise run as microtasks, before   *)
(* any other I/O completion: they are queued in the variable microtasks    *)
(* and every other action waits for that queue to drain.                   *)
(***************************************************************************)
EXTENDS Integers, Sequences, FiniteSets

\* ------------------------------------------------------------------ bounds
MaxEvents == 2
MaxBurst == 3
MaxGate == 2
MaxDup == 2
MaxLookup == 2
MaxWait == 3
MaxPair == 2
MaxSink == 2
MaxInitAttempts == 11
MaxThreads == 3
MaxTicks == 2
TickMs == 50000000

\* ------------------------------------------------------- program constants
TTL == 24 * 60 * 60 * 1000
KickThreshold == 10
WarnFrom == 7

Users == {"u1", "u2"}
Max(S) == CHOOSE x \in S : \A y \in S : y <= x
Events == 1..Max({MaxEvents, MaxBurst, MaxGate, MaxDup, MaxLookup, MaxWait, MaxPair,
                   MaxSink})
ThreadIds == 1..MaxThreads
ManagedChannel == "managed"
NoWarningYet == [kind |-> "unsent", remaining |-> 0]
SweepRuns == {"r1", "r2"}
Kinds == {"gated", "bot", "otherChannel", "noMember", "exempt"}

VARIABLES
    records,      \* table user_threads: sequence of rows, the row id is the index
    ext,          \* the platform's state of each thread id
    nextTid,      \* next thread id the platform hands out
    now,          \* Date.now()
    threadCreationInProgress, \* user -> event whose creation promise is stored (0: no entry)
    waitq,        \* event -> events awaiting its creation promise, in registration order
    microtasks,   \* continuations ready to run before any further I/O completion
    pc,           \* event -> position of its handleMessage call
    evUser,       \* event -> message.author.id
    evKind,       \* event -> which of the entry checks of handleMessage it met
    activeThread, \* event -> thread_id of the row getActiveThread returned (0: null)
    verdict,      \* event -> VerdictOf the fetch of verifyThreadIsActive ("": none yet)
    thread,       \* event -> createNewThread's local `thread` (0: undefined)
    newAttemptCount, \* event -> value incrementAttempts returned (-1: not called)
    warning,      \* event -> warning class computed by sendThreadLinkDM
    dmSuccess,    \* event -> "sent" / "failed" / "" (sendThreadLinkDM not reached)
    kick,         \* event -> "" / "noPermission" / "kicked" / "failed"
    undeleted,    \* thread ids whose compensating thread.delete failed
    delPending,   \* thread ids whose threadDelete event is not yet handled
    cleanupIntervalId, \* TRUE while the interval of startCleanupJob is set
    sweepPc,      \* run -> position of that run of cleanupExpiredThreads
    sweepList,    \* run -> thread ids of expiredThreads still to process
    sweepError,   \* run -> code of the error its catch block holds (Success: none)
    sinkUp        \* TRUE while the logging channel can be fetched and sent to

vars == <<records, ext, nextTid, now, threadCreationInProgress, waitq, microtasks,
          pc, evUser, evKind, activeThread, verdict, thread, newAttemptCount,
          warning, dmSuccess, kick, undeleted, delPending,
          cleanupIntervalId, sweepPc, sweepList, sweepError, sinkUp>>

\* The locals of an event's handler; they are gone when it returns.
evLocals == <<evUser, activeThread, verdict, thread, newAttemptCount, warning,
              dmSuccess, kick>>

platform == <<ext, nextTid, undeleted, delPending>>

sweeper == <<cleanupIntervalId, sweepPc, sweepList, sweepError, sinkUp>>

\* ---------------------------------------------------------- session store
RowIds(recs) == DOMAIN recs

ActiveRows(recs, u) ==
    {i \in RowIds(recs) : recs[i].user_id = u /\ recs[i].is_active = 1}

\* A variant of the query without its is_active = 1 condition.
GetActiveAnyRow(recs, u) ==
    {i \in RowIds(recs) :
        /\ recs[i].user_id = u
        /\ \A j \in RowIds(recs) :
             recs[j].user_id = u => recs[j].created_at <= recs[i].created_at}

\* SELECT ... WHERE user_id = ? AND is_active = 1 ORDER BY created_at DESC LIMIT 1.
\* The rows of highest created_at; SQL leaves the choice among equal created_at open.
GetActiveThread(recs, u) ==
    {i \in ActiveRows(recs, u) :
        \A j \in ActiveRows(recs, u) : recs[j].created_at <= recs[i].created_at}

\* A variant whose expiry is 24 hours counted in seconds, not milliseconds.
CreateThreadSecondsTTL(recs, u, t, time) ==
    Append(recs, [user_id |-> u, thread_id |-> t, channel_id |-> ManagedChannel,
                  created_at |-> time, expires_at |-> time + 24 * 60 * 60,
                  attempt_count |-> 0, is_active |-> 1])

\* A variant that counts the first contact as an attempt.
CreateThreadCountsFirst(recs, u, t, time) ==
    Append(recs, [user_id |-> u, thread_id |-> t, channel_id |-> ManagedChannel,
                  created_at |-> time, expires_at |-> time + TTL,
                  attempt_count |-> 1, is_active |-> 1])

\* createThread: INSERT ... VALUES (?, ?, ?, now, now + 24h, 0, 1).
CreateThread(recs, u, t, time) ==
    Append(recs, [user_id |-> u, thread_id |-> t, channel_id |-> ManagedChannel,
                  created_at |-> time, expires_at |-> time + TTL,
                  attempt_count |-> 0, is_active |-> 1])

\* A variant of the UPDATE without its is_active = 1 condition.
IncrementAttemptsAnyRow(recs, u) ==
    [i \in RowIds(recs) |->
        IF recs[i].user_id = u
        THEN [recs[i] EXCEPT !.attempt_count = @ + 1]
        ELSE recs[i]]

\* UPDATE user_threads SET attempt_count = attempt_count + 1
\* WHERE user_id = ? AND is_active = 1
IncrementAttempts(recs, u) ==
    [i \in RowIds(recs) |->
        IF recs[i].user_id = u /\ recs[i].is_active = 1
        THEN [recs[i] EXCEPT !.attempt_count = @ + 1]
        ELSE recs[i]]

\* The SELECT of the same transaction: result?.attempt_count || 0
AttemptsRead(recs, u) ==
    IF GetActiveThread(recs, u) = {} THEN {0}
    ELSE {recs[i].attempt_count : i \in GetActiveThread(recs, u)}

\* A variant that flips is_active instead of clearing it.
DeactivateToggles(recs, t) ==
    [i \in RowIds(recs) |->
        IF recs[i].thread_id = t THEN [recs[i] EXCEPT !.is_active = 1 - @] ELSE recs[i]]

\* A variant whose UPDATE reaches every row of the users of thread t.
DeactivateAllOfUser(recs, t) ==
    [i \in RowIds(recs) |->
        IF \E j \in RowIds(recs) : recs[j].thread_id = t /\ recs[j].user_id = recs[i].user_id
        THEN [recs[i] EXCEPT !.is_active = 0] ELSE recs[i]]

\* deactivateThread: UPDATE user_threads SET is_active = 0 WHERE thread_id = ?
DeactivateThread(recs, t) ==
    [i \in RowIds(recs) |->
        IF recs[i].thread_id = t THEN [recs[i] EXCEPT !.is_active = 0] ELSE recs[i]]

\* ------------------------------------------------------ notification sink
\* A variant of log without its try/catch: a failure of the sink rejects.
LogRethrows(up) == IF up THEN "resolved" ELSE "rejected"

\* The try block of log: the fetch of the logging channel and the send.
LogSend(up) == IF up THEN "sent" ELSE "threw"

\* log(type, message, details): what its promise does.  A throw of the try block
\* is caught and printed, a missing channel is printed; the promise resolves.
Log(up) == IF LogSend(up) = "threw" THEN "resolved" ELSE "resolved"

\* --------------------------------------------------------- attempt gate
Idle == microtasks = <<>>

gate == <<threadCreationInProgress, waitq, microtasks>>

\* The handler of event e returns: its locals are gone.
Return(e) ==
    /\ pc' = [pc EXCEPT ![e] = "done"]
    /\ evUser' = [evUser EXCEPT ![e] = ""]
    /\ activeThread' = [activeThread EXCEPT ![e] = 0]
    /\ verdict' = [verdict EXCEPT ![e] = ""]
    /\ thread' = [thread EXCEPT ![e] = 0]
    /\ newAttemptCount' = [newAttemptCount EXCEPT ![e] = -1]
    /\ warning' = [warning EXCEPT ![e] = NoWarningYet]
    /\ dmSuccess' = [dmSuccess EXCEPT ![e] = ""]
    /\ kick' = [kick EXCEPT ![e] = ""]

\* handleMessage from the store lookup to its next await (lines 88-110 without the
\* reconciliation): no active row starts createNewThread, which runs up to its await
\* of message.startThread, and stores its promise; an active row awaits its verification.
Gate(e, u) ==
    IF GetActiveThread(records, u) = {}
    THEN /\ pc' = [pc EXCEPT ![e] = "startThread"]
         /\ threadCreationInProgress' = [threadCreationInProgress EXCEPT ![u] = e]
         /\ UNCHANGED activeThread
    ELSE \E r \in GetActiveThread(records, u) :
         /\ pc' = [pc EXCEPT ![e] = "verify"]
         /\ activeThread' = [activeThread EXCEPT ![e] = records[r].thread_id]
         /\ UNCHANGED threadCreationInProgress

\* A variant of the entry checks without the exempt-role test of lines 76-79.
ExemptNotChecked(k) == k \in {"gated", "exempt"}

\* The entry checks of handleMessage (lines 58-79) let a message through when its
\* author is no bot, it is in the managed channel, it has a member and the member
\* holds no exempt role.
PassesEntryChecks(k) == k = "gated"

\* A variant with one in-progress entry for all users: a message waits for the
\* creation in progress of any user.
HandleMessageOneMarker(e, u, k) ==
    /\ Idle
    /\ pc[e] = "new"
    /\ \A d \in Events : d < e => pc[d] # "new"
    /\ evKind' = [evKind EXCEPT ![e] = k]
    /\ IF ~PassesEntryChecks(k)
       THEN /\ pc' = [pc EXCEPT ![e] = "done"]
            /\ UNCHANGED <<threadCreationInProgress, waitq, activeThread, evUser>>
       ELSE /\ evUser' = [evUser EXCEPT ![e] = u]
            /\ IF \E v \in Users : threadCreationInProgress[v] # 0
               THEN /\ pc' = [pc EXCEPT ![e] = "waiting"]
                    /\ \E v \in Users :
                         /\ threadCreationInProgress[v] # 0
                         /\ waitq' = [waitq EXCEPT ![threadCreationInProgress[v]] =
                                                       Append(@, e)]
                    /\ UNCHANGED <<threadCreationInProgress, activeThread>>
               ELSE /\ Gate(e, u)
                    /\ UNCHANGED waitq
    /\ UNCHANGED <<records, platform, now, microtasks, verdict, thread,
                   newAttemptCount, warning, dmSuccess, kick, sweeper>>

\* A messageCreate event: the entry checks (lines 58-79), the in-progress check and,
\* when no creation is in progress for the author, the code up to the next await.
HandleMessage(e, u, k) ==
    /\ Idle
    /\ pc[e] = "new"
    /\ \A d \in Events : d < e => pc[d] # "new"
    /\ evKind' = [evKind EXCEPT ![e] = k]
    /\ IF ~PassesEntryChecks(k)
       THEN /\ pc' = [pc EXCEPT ![e] = "done"]
            /\ UNCHANGED <<threadCreationInProgress, waitq, activeThread, evUser>>
       ELSE /\ evUser' = [evUser EXCEPT ![e] = u]
            /\ IF threadCreationInProgress[u] # 0
               THEN /\ pc' = [pc EXCEPT ![e] = "waiting"]
                    /\ waitq' = [waitq EXCEPT ![threadCreationInProgress[u]] = Append(@, e)]
                    /\ UNCHANGED <<threadCreationInProgress, activeThread>>
               ELSE /\ Gate(e, u)
                    /\ UNCHANGED waitq
    /\ UNCHANGED <<records, platform, now, microtasks, verdict, thread,
                   newAttemptCount, warning, dmSuccess, kick, sweeper>>

\* The continuation of `await inProgressPromise`: the store lookup, with no second
\* look at threadCreationInProgress.
ResumeWaiter(e) ==
    /\ microtasks # <<>>
    /\ e = Head(microtasks)
    /\ microtasks' = Tail(microtasks)
    /\ Gate(e, evUser[e])
    /\ UNCHANGED <<records, platform, now, waitq, evUser, evKind, verdict, thread,
                   newAttemptCount, warning, dmSuccess, kick, sweeper>>

\* What client.channels.fetch(threadId) can give: the thread in its current state,
\* not-found for a deleted thread, or a fault of the call.
FetchOutcomes(t) ==
    (IF ext[t] = "deleted" THEN {"notFound"} ELSE {ext[t]}) \cup {"transient", "permanent"}

\* A variant that fails open: a transient rejection of the fetch counts as active.
VerifyFailOpen(outcome) == outcome \in {"open", "transient"}

\* A variant without the archived test of line 40.
VerifyIgnoresArchived(outcome) == outcome \in {"open", "archived"}

\* verifyThreadIsActive's result for each outcome of the fetch (lines 33-49): true
\* for a thread that is neither archived nor locked, false for every other thread
\* and, through the catch, for every rejection of the fetch.
VerifyThreadIsActive(outcome) == outcome = "open"

\* What the platform said of the session, kept per event for the properties:
\* "active"; "transient" when the fetch failed transiently (unreachable, timeout,
\* rate limit); "stale" when the thread is gone, archived or locked, or the fetch
\* was rejected for good (unknown channel, missing access).
VerdictOf(outcome) ==
    IF outcome = "open" THEN "active"
    ELSE IF outcome = "transient" THEN "transient"
    ELSE "stale"

\* The fetch of verifyThreadIsActive settles.  true: handleExistingThread starts
\* and runs to its await of message.delete(), or to the logError of line 196 when
\* the bot lacks ManageMessages.  false: handleMessage awaits the import of the
\* database module.
VerifyDone(e) ==
    /\ Idle
    /\ pc[e] = "verify"
    /\ \E o \in FetchOutcomes(activeThread[e]) :
         /\ verdict' = [verdict EXCEPT ![e] = VerdictOf(o)]
         /\ IF VerifyThreadIsActive(o)
            THEN \E canDelete \in BOOLEAN :
                   pc' = [pc EXCEPT ![e] = IF canDelete THEN "deleteMessage"
                                            ELSE "logNoPermission"]
            ELSE pc' = [pc EXCEPT ![e] = "importDb"]
    /\ UNCHANGED <<records, platform, now, gate, evUser, evKind, activeThread, thread,
                   newAttemptCount, warning, dmSuccess, kick, sweeper>>

\* Lines 97-107: deactivate the stale row, then createNewThread up to its await of
\* message.startThread, and store its promise (replacing any entry of the user).
Reconcile(e) ==
    /\ Idle
    /\ pc[e] = "importDb"
    /\ records' = DeactivateThread(records, activeThread[e])
    /\ pc' = [pc EXCEPT ![e] = "startThread"]
    /\ threadCreationInProgress' = [threadCreationInProgress EXCEPT ![evUser[e]] = e]
    /\ UNCHANGED <<platform, now, waitq, microtasks, evKind, evLocals, sweeper>>

\* createNewThread returns (it never throws): its promise resolves, handleMessage's
\* finally deletes the user's entry whichever event stored it, and the events that
\* awaited the promise are resumed in the order they arrived.
CreationSettled(e) ==
    /\ Return(e)
    /\ threadCreationInProgress' = [threadCreationInProgress EXCEPT ![evUser[e]] = 0]
    /\ microtasks' = waitq[e]
    /\ waitq' = [waitq EXCEPT ![e] = <<>>]

\* message.startThread settles.  On success the row is inserted at once
\* (createThread); an insert that throws leads to the clean-up of lines 145-153.
StartThreadDone(e) ==
    /\ Idle
    /\ pc[e] = "startThread"
    /\ \/ /\ pc' = [pc EXCEPT ![e] = "logCreateError"]
          /\ UNCHANGED <<records, ext, nextTid, thread>>
       \/ /\ nextTid <= MaxThreads
          /\ ext' = [ext EXCEPT ![nextTid] = "open"]
          /\ nextTid' = nextTid + 1
          /\ thread' = [thread EXCEPT ![e] = nextTid]
          /\ \/ /\ records' = CreateThread(records, evUser[e], nextTid, now)
                /\ pc' = [pc EXCEPT ![e] = "logThreadCreated"]
             \/ /\ pc' = [pc EXCEPT ![e] = "rollback"]
                /\ UNCHANGED records
    /\ UNCHANGED <<undeleted, delPending, now, gate, evUser, evKind, activeThread,
                   verdict, newAttemptCount, warning, dmSuccess, kick, sweeper>>

\* A variant of the clean-up that rethrows without deleting the thread.
RollbackSkipped(e) ==
    /\ Idle
    /\ pc[e] = "rollback"
    /\ pc' = [pc EXCEPT ![e] = "logCreateError"]
    /\ UNCHANGED <<records, platform, now, gate, evKind, evLocals, sweeper>>

\* thread.delete('Database insertion failed') settles; its failure is only printed.
\* The insert's error is then rethrown into createNewThread's catch.
RollbackDone(e) ==
    /\ Idle
    /\ pc[e] = "rollback"
    /\ \/ /\ ext' = [ext EXCEPT ![thread[e]] = "deleted"]
          /\ delPending' = delPending \cup {thread[e]}
          /\ UNCHANGED undeleted
       \/ /\ undeleted' = undeleted \cup {thread[e]}
          /\ UNCHANGED <<ext, delPending>>
    /\ pc' = [pc EXCEPT ![e] = "logCreateError"]
    /\ UNCHANGED <<records, nextTid, now, gate, evKind, evLocals, sweeper>>

\* logThreadCreated settles, and createNewThread returns.  (Were its promise to
\* reject, the catch of createNewThread would be entered.)
LogThreadCreatedDone(e) ==
    /\ Idle
    /\ pc[e] = "logThreadCreated"
    /\ IF Log(sinkUp) = "resolved"
       THEN CreationSettled(e)
       ELSE /\ pc' = [pc EXCEPT ![e] = "logCreateError"]
            /\ UNCHANGED <<gate, evLocals>>
    /\ UNCHANGED <<records, platform, now, evKind, sweeper>>

\* A variant whose return without a thread object leaves the user's entry and the
\* awaiting events as they are.
LogCreateErrorKeepsMarker(e) ==
    /\ Idle
    /\ pc[e] = "logCreateError"
    /\ IF thread[e] # 0
       THEN /\ pc' = [pc EXCEPT ![e] = "notifyError"]
            /\ UNCHANGED <<gate, evLocals>>
       ELSE /\ Return(e)
            /\ UNCHANGED gate
    /\ UNCHANGED <<records, platform, now, evKind, sweeper>>

\* logError of createNewThread's catch settles; with a thread object the user is
\* told in the thread (line 171), else createNewThread returns.
LogCreateErrorDone(e) ==
    /\ Idle
    /\ pc[e] = "logCreateError"
    /\ IF thread[e] # 0
       THEN /\ pc' = [pc EXCEPT ![e] = "notifyError"]
            /\ UNCHANGED <<gate, evLocals>>
       ELSE CreationSettled(e)
    /\ UNCHANGED <<records, platform, now, evKind, sweeper>>

\* thread.send of line 171 settles, either way.
NotifyErrorDone(e) ==
    /\ Idle
    /\ pc[e] = "notifyError"
    /\ CreationSettled(e)
    /\ UNCHANGED <<records, platform, now, evKind, sweeper>>

\* ------------------------------------------------- duplicate-attempt path
\* A variant without the return of line 197: the handler goes on to message.delete().
NoPermissionFallsThrough(e) ==
    /\ Idle
    /\ pc[e] = "logNoPermission"
    /\ pc' = [pc EXCEPT ![e] = "deleteMessage"]
    /\ UNCHANGED <<records, platform, now, gate, evKind, evLocals, sweeper>>

\* The logError of line 196 (missing ManageMessages) settles; handleExistingThread
\* returns at line 197.
NoPermissionLogged(e) ==
    /\ Idle
    /\ pc[e] = "logNoPermission"
    /\ Return(e)
    /\ UNCHANGED <<records, platform, now, gate, evKind, sweeper>>

\* A variant whose final warning starts at the threshold.
WarningFinalAtThreshold(n) ==
    IF n >= KickThreshold THEN [kind |-> "final", remaining |-> 0]
    ELSE IF n >= WarnFrom THEN [kind |-> "remaining", remaining |-> KickThreshold - n]
    ELSE [kind |-> "none", remaining |-> 0]

\* sendThreadLinkDM's warningMessage for attempt count n (lines 254-258).
WarningMessage(n) ==
    IF n > KickThreshold THEN [kind |-> "final", remaining |-> 0]
    ELSE IF n >= WarnFrom THEN [kind |-> "remaining", remaining |-> KickThreshold - n]
    ELSE [kind |-> "none", remaining |-> 0]

\* A variant of the kick test that kicks on reaching the threshold.
ShouldKickAtThreshold(n) == n >= KickThreshold

\* The kick test of handleExistingThread (line 225).
ShouldKick(n) == n > KickThreshold

\* message.delete() settles.  On success incrementAttempts runs at once, as one
\* transaction, and sendThreadLinkDM is awaited; a failure goes to the catch (logError).
DeleteMessageDone(e) ==
    /\ Idle
    /\ pc[e] = "deleteMessage"
    /\ \/ /\ records' = IncrementAttempts(records, evUser[e])
          /\ \E n \in AttemptsRead(records', evUser[e]) :
               newAttemptCount' = [newAttemptCount EXCEPT ![e] = n]
          /\ pc' = [pc EXCEPT ![e] = "sendDM"]
       \/ /\ pc' = [pc EXCEPT ![e] = "logEnd"]
          /\ UNCHANGED <<records, newAttemptCount>>
    /\ UNCHANGED <<platform, now, gate, evUser, evKind, activeThread, verdict, thread,
                   warning, dmSuccess, kick, sweeper>>

\* A variant of sendThreadLinkDM without its try/catch: a failed fetch or send
\* throws into the catch of handleExistingThread (logError), and the handler ends.
SendDMFatal(e) ==
    /\ Idle
    /\ pc[e] = "sendDM"
    /\ \/ /\ warning' = [warning EXCEPT ![e] = WarningMessage(newAttemptCount[e])]
          /\ dmSuccess' = [dmSuccess EXCEPT ![e] = "sent"]
          /\ pc' = [pc EXCEPT ![e] = "logMessageDeleted"]
       \/ /\ dmSuccess' = [dmSuccess EXCEPT ![e] = "failed"]
          /\ pc' = [pc EXCEPT ![e] = "logEnd"]
          /\ UNCHANGED warning
    /\ UNCHANGED <<records, platform, now, gate, evUser, evKind, activeThread, verdict,
                   thread, newAttemptCount, kick, sweeper>>

\* sendThreadLinkDM settles: the user fetch or the send may fail (returns false);
\* logMessageDeleted is awaited next.
SendDMDone(e) ==
    /\ Idle
    /\ pc[e] = "sendDM"
    /\ \/ /\ warning' = [warning EXCEPT ![e] = WarningMessage(newAttemptCount[e])]
          /\ \E r \in {"sent", "failed"} : dmSuccess' = [dmSuccess EXCEPT ![e] = r]
       \/ /\ dmSuccess' = [dmSuccess EXCEPT ![e] = "failed"]
          /\ UNCHANGED warning
    /\ pc' = [pc EXCEPT ![e] = "logMessageDeleted"]
    /\ UNCHANGED <<records, platform, now, gate, evUser, evKind, activeThread, verdict,
                   thread, newAttemptCount, kick, sweeper>>

\* A variant of kickUser without the return of line 288: after logging the missing
\* capability it goes on to member.kick.
KickWithoutCapability(e) ==
    /\ Idle
    /\ pc[e] = "logMessageDeleted"
    /\ IF ShouldKick(newAttemptCount[e])
       THEN /\ \E canKick \in BOOLEAN :
                 /\ pc' = [pc EXCEPT ![e] = "kickMember"]
                 /\ kick' = [kick EXCEPT ![e] = IF canKick THEN @ ELSE "noPermission"]
            /\ UNCHANGED <<evUser, activeThread, verdict, thread, newAttemptCount,
                           warning, dmSuccess>>
       ELSE Return(e)
    /\ UNCHANGED <<records, platform, now, gate, evKind, sweeper>>

\* logMessageDeleted settles (were its promise to reject, the catch of
\* handleExistingThread would be entered); then the kick test and the start of kickUser, whose
\* capability check (canKickMembers) either logs an error or awaits member.kick.
LogMessageDeletedDone(e) ==
    /\ Idle
    /\ pc[e] = "logMessageDeleted"
    /\ IF Log(sinkUp) # "resolved"
       THEN /\ pc' = [pc EXCEPT ![e] = "logEnd"]
            /\ UNCHANGED evLocals
       ELSE IF ShouldKick(newAttemptCount[e])
       THEN /\ \E canKick \in BOOLEAN :
                 IF canKick
                 THEN /\ pc' = [pc EXCEPT ![e] = "kickMember"]
                      /\ UNCHANGED kick
                 ELSE /\ pc' = [pc EXCEPT ![e] = "logEnd"]
                      /\ kick' = [kick EXCEPT ![e] = "noPermission"]
            /\ UNCHANGED <<evUser, activeThread, verdict, thread, newAttemptCount,
                           warning, dmSuccess>>
       ELSE Return(e)
    /\ UNCHANGED <<records, platform, now, gate, evKind, sweeper>>

\* A variant of kickUser that closes the user's sessions once the kick succeeded.
KickDoneClosesSession(e) ==
    /\ Idle
    /\ pc[e] = "kickMember"
    /\ \E r \in {"kicked", "failed"} :
         /\ kick' = [kick EXCEPT ![e] = r]
         /\ records' = IF r = "kicked"
                       THEN [i \in RowIds(records) |->
                               IF records[i].user_id = evUser[e]
                               THEN [records[i] EXCEPT !.is_active = 0]
                               ELSE records[i]]
                       ELSE records
    /\ pc' = [pc EXCEPT ![e] = "logEnd"]
    /\ UNCHANGED <<platform, now, gate, evUser, evKind, activeThread, verdict,
                   thread, newAttemptCount, warning, dmSuccess, sweeper>>

\* member.kick settles: logUserKicked on success, logError on failure.
KickDone(e) ==
    /\ Idle
    /\ pc[e] = "kickMember"
    /\ \E r \in {"kicked", "failed"} : kick' = [kick EXCEPT ![e] = r]
    /\ pc' = [pc EXCEPT ![e] = "logEnd"]
    /\ UNCHANGED <<records, platform, now, gate, evUser, evKind, activeThread, verdict,
                   thread, newAttemptCount, warning, dmSuccess, sweeper>>

\* A variant of handleMessage without its else: createNewThread is called after
\* handleExistingThread has returned.
LogEndThenCreates(e) ==
    /\ Idle
    /\ pc[e] = "logEnd"
    /\ pc' = [pc EXCEPT ![e] = "startThread"]
    /\ threadCreationInProgress' = [threadCreationInProgress EXCEPT ![evUser[e]] = e]
    /\ UNCHANGED <<records, platform, now, waitq, microtasks, evKind, evLocals, sweeper>>

\* The last awaited log call of the duplicate path settles; the handler returns.
LogEndDone(e) ==
    /\ Idle
    /\ pc[e] = "logEnd"
    /\ Return(e)
    /\ UNCHANGED <<records, platform, now, gate, evKind, sweeper>>

\* ------------------------------------------------------------ environment
\* A thread is deleted on the platform, which will send threadDelete.
ExternalDelete(t) ==
    /\ Idle
    /\ ext[t] \in {"open", "locked", "archived"}
    /\ ext' = [ext EXCEPT ![t] = "deleted"]
    /\ delPending' = delPending \cup {t}
    /\ UNCHANGED <<records, nextTid, undeleted, now, gate, pc, evKind, evLocals, sweeper>>

\* A thread is archived on the platform (by a moderator, or by auto-archive).
ExternalArchive(t) ==
    /\ Idle
    /\ ext[t] = "open"
    /\ ext' = [ext EXCEPT ![t] = "archived"]
    /\ UNCHANGED <<records, nextTid, undeleted, delPending, now, gate, pc, evKind,
                   evLocals, sweeper>>

\* Time passes.
Tick ==
    /\ Idle
    /\ now < MaxTicks * TickMs
    /\ now' = now + TickMs
    /\ UNCHANGED <<records, platform, gate, pc, evKind, evLocals, sweeper>>

\* ---------------------------------------------------------- thread handler
\* handleThreadDelete: deactivate the rows of the deleted thread (the log call that
\* follows is the handler's last step).
HandleThreadDelete(t) ==
    /\ Idle
    /\ t \in delPending
    /\ records' = DeactivateThread(records, t)
    /\ delPending' = delPending \ {t}
    /\ UNCHANGED <<ext, nextTid, undeleted, now, gate, pc, evKind, evLocals, sweeper>>

\* ----------------------------------------------------------- expiry sweeper
\* SELECT * FROM user_threads WHERE expires_at < ? AND is_active = 1, in row order.
RECURSIVE ExpiredFrom(_, _, _)
ExpiredFrom(recs, time, i) ==
    IF i > Len(recs) THEN <<>>
    ELSE IF recs[i].expires_at < time /\ recs[i].is_active = 1
         THEN <<recs[i].thread_id>> \o ExpiredFrom(recs, time, i + 1)
         ELSE ExpiredFrom(recs, time, i + 1)

\* A variant of the query with expires_at <= ? in place of expires_at < ?.
RECURSIVE ExpiredInclusiveFrom(_, _, _)
ExpiredInclusiveFrom(recs, time, i) ==
    IF i > Len(recs) THEN <<>>
    ELSE IF recs[i].expires_at <= time /\ recs[i].is_active = 1
         THEN <<recs[i].thread_id>> \o ExpiredInclusiveFrom(recs, time, i + 1)
         ELSE ExpiredInclusiveFrom(recs, time, i + 1)

ExpiredInclusive(recs, time) == ExpiredInclusiveFrom(recs, time, 1)

\* A variant of the query without its is_active = 1 condition.
RECURSIVE ExpiredAnyRowFrom(_, _, _)
ExpiredAnyRowFrom(recs, time, i) ==
    IF i > Len(recs) THEN <<>>
    ELSE IF recs[i].expires_at < time
         THEN <<recs[i].thread_id>> \o ExpiredAnyRowFrom(recs, time, i + 1)
         ELSE ExpiredAnyRowFrom(recs, time, i + 1)

ExpiredAnyRow(recs, time) == ExpiredAnyRowFrom(recs, time, 1)

\* getExpiredThreads at Date.now() = time.
GetExpiredThreads(recs, time) == ExpiredFrom(recs, time, 1)

\* A variant that deletes the rows of the thread instead of deactivating them.
CloseThreadDeletesRows(recs, t) ==
    SelectSeq(recs, LAMBDA r : r.thread_id # t)

\* A variant of closeThread that writes nothing.
CloseThreadNoOp(recs, t) == recs

\* closeThread(threadId) is deactivateThread(threadId).
CloseThread(recs, t) == DeactivateThread(recs, t)

\* How an awaited platform call of the sweeper ends: Success, or a rejection with
\* error.code one of Discord's codes, or with an error that carries no such code
\* (a network error, a rate limit, a 5xx answer).
Success == 0
Uncoded == 1
UnknownChannel == 10003

\* permanentErrorCodes (line 132): Unknown Channel, Unknown Guild, Unknown Message,
\* Missing Access, Missing Permissions.
PermanentErrorCodes == {10003, 10004, 10008, 50001, 50013}

Faults == PermanentErrorCodes \cup {Uncoded}

\* Outcomes of client.channels.fetch(thread_id) in the sweeper: a deleted thread is
\* not fetched.
SweepFetchOutcomes(t) ==
    IF ext[t] = "deleted" THEN Faults ELSE {Success} \cup (Faults \ {UnknownChannel})

\* Outcomes of thread.setLocked / thread.setArchived: a thread deleted meanwhile
\* answers Unknown Channel.
EditOutcomes(t) ==
    IF ext[t] = "deleted" THEN {UnknownChannel, Uncoded}
    ELSE {Success} \cup (Faults \ {UnknownChannel})

\* A variant of the catch that closes the row whatever the error.
CloseOnAnyError(recs, t, o) == CloseThread(recs, t)

\* A variant of the catch that never closes the row.
CloseOnNoError(recs, t, o) == recs

\* The catch of lines 127-141: an error whose code is in permanentErrorCodes
\* closes the row; any other error leaves it.
AfterSweepError(recs, t, o) ==
    IF o \in PermanentErrorCodes THEN CloseThread(recs, t) ELSE recs

\* The for loop moves to its next element, or the run ends.
SweepAdvance(s) ==
    /\ sweepList' = [sweepList EXCEPT ![s] = Tail(@)]
    /\ sweepPc' = [sweepPc EXCEPT ![s] = IF Len(sweepList[s]) > 1 THEN "fetch" ELSE "idle"]
    /\ sweepError' = [sweepError EXCEPT ![s] = Success]

\* The catch block of the loop body is entered with error code o for thread t:
\* the row is closed or left, and logError is awaited.
SweepCatch(s, t, o) ==
    /\ records' = AfterSweepError(records, t, o)
    /\ sweepError' = [sweepError EXCEPT ![s] = o]
    /\ sweepPc' = [sweepPc EXCEPT ![s] = "logError"]
    /\ UNCHANGED sweepList

\* A run of cleanupExpiredThreads starts (the start-up run or an interval tick;
\* nothing prevents a tick while an earlier run is still awaiting): it lists the
\* expired rows and awaits the fetch of the first.  A run that finds none returns.
SweepStart(s) ==
    /\ Idle
    /\ cleanupIntervalId
    /\ sweepPc[s] = "idle"
    /\ GetExpiredThreads(records, now) # <<>>
    /\ sweepList' = [sweepList EXCEPT ![s] = GetExpiredThreads(records, now)]
    /\ sweepPc' = [sweepPc EXCEPT ![s] = "fetch"]
    /\ UNCHANGED <<records, platform, now, gate, pc, evKind, evLocals,
                   cleanupIntervalId, sweepError, sinkUp>>

\* A variant whose null branch goes to the next element without closing the row.
SweepFetchedKeepsMissing(s, o) ==
    /\ Idle
    /\ sweepPc[s] = "fetch"
    /\ o \in SweepFetchOutcomes(Head(sweepList[s]))
    /\ LET t == Head(sweepList[s]) IN
         CASE o = UnknownChannel ->
                /\ SweepAdvance(s)
                /\ UNCHANGED records
           [] o = Success ->
                /\ sweepPc' = [sweepPc EXCEPT ![s] = "setLocked"]
                /\ UNCHANGED <<records, sweepList, sweepError>>
           [] OTHER -> SweepCatch(s, t, o)
    /\ UNCHANGED <<platform, now, gate, pc, evKind, evLocals, cleanupIntervalId, sinkUp>>

\* client.channels.fetch settles with outcome o for the head of the list (lines
\* 97-112): Unknown Channel is turned into null by the .catch, and the row closed.
SweepFetched(s, o) ==
    /\ Idle
    /\ sweepPc[s] = "fetch"
    /\ o \in SweepFetchOutcomes(Head(sweepList[s]))
    /\ LET t == Head(sweepList[s]) IN
         CASE o = UnknownChannel ->
                /\ records' = CloseThread(records, t)
                /\ SweepAdvance(s)
           [] o = Success ->
                /\ sweepPc' = [sweepPc EXCEPT ![s] = "setLocked"]
                /\ UNCHANGED <<records, sweepList, sweepError>>
           [] OTHER -> SweepCatch(s, t, o)
    /\ UNCHANGED <<platform, now, gate, pc, evKind, evLocals, cleanupIntervalId, sinkUp>>

SweepFetchDone(s) == \E o \in Faults \cup {Success} : SweepFetched(s, o)

\* A variant that closes the row as soon as the thread is locked.
SweepLockedCloses(s, o) ==
    /\ Idle
    /\ sweepPc[s] = "setLocked"
    /\ o \in EditOutcomes(Head(sweepList[s]))
    /\ LET t == Head(sweepList[s]) IN
         IF o = Success
         THEN /\ ext' = [ext EXCEPT ![t] = IF @ = "open" THEN "locked" ELSE @]
              /\ records' = CloseThread(records, t)
              /\ sweepPc' = [sweepPc EXCEPT ![s] = "setArchived"]
              /\ UNCHANGED <<sweepList, sweepError>>
         ELSE /\ SweepCatch(s, t, o)
              /\ UNCHANGED ext
    /\ UNCHANGED <<nextTid, undeleted, delPending, now, gate, pc, evKind, evLocals,
                   cleanupIntervalId, sinkUp>>

\* thread.setLocked(true) settles with outcome o (line 115).
SweepLocked(s, o) ==
    /\ Idle
    /\ sweepPc[s] = "setLocked"
    /\ o \in EditOutcomes(Head(sweepList[s]))
    /\ LET t == Head(sweepList[s]) IN
         IF o = Success
         THEN /\ ext' = [ext EXCEPT ![t] = IF @ = "open" THEN "locked" ELSE @]
              /\ sweepPc' = [sweepPc EXCEPT ![s] = "setArchived"]
              /\ UNCHANGED <<records, sweepList, sweepError>>
         ELSE /\ SweepCatch(s, t, o)
              /\ UNCHANGED ext
    /\ UNCHANGED <<nextTid, undeleted, delPending, now, gate, pc, evKind, evLocals,
                   cleanupIntervalId, sinkUp>>

SweepLockDone(s) == \E o \in Faults \cup {Success} : SweepLocked(s, o)

\* thread.setArchived(true) settles with outcome o; on success the row is closed
\* and logThreadExpired awaited (lines 118-124).
SweepArchived(s, o) ==
    /\ Idle
    /\ sweepPc[s] = "setArchived"
    /\ o \in EditOutcomes(Head(sweepList[s]))
    /\ LET t == Head(sweepList[s]) IN
         IF o = Success
         THEN /\ ext' = [ext EXCEPT ![t] = "archived"]
              /\ records' = CloseThread(records, t)
              /\ sweepPc' = [sweepPc EXCEPT ![s] = "logThreadExpired"]
              /\ UNCHANGED <<sweepList, sweepError>>
         ELSE /\ SweepCatch(s, t, o)
              /\ UNCHANGED ext
    /\ UNCHANGED <<nextTid, undeleted, delPending, now, gate, pc, evKind, evLocals,
                   cleanupIntervalId, sinkUp>>

SweepArchiveDone(s) == \E o \in Faults \cup {Success} : SweepArchived(s, o)

\* A variant whose try/catch encloses the whole loop: an error ends the run.
SweepAbortsOnError(s) ==
    /\ Idle
    /\ sweepPc[s] \in {"logThreadExpired", "logError"}
    /\ IF sweepPc[s] = "logError"
       THEN /\ sweepList' = [sweepList EXCEPT ![s] = <<>>]
            /\ sweepPc' = [sweepPc EXCEPT ![s] = "idle"]
            /\ sweepError' = [sweepError EXCEPT ![s] = Success]
       ELSE SweepAdvance(s)
    /\ UNCHANGED <<records, platform, now, gate, pc, evKind, evLocals,
                   cleanupIntervalId, sinkUp>>

\* logThreadExpired or logError settles; the loop goes on.  (Were the promise to
\* reject, logThreadExpired would throw into the catch of the loop body and
\* logError out of the loop, ending the run.)
SweepLogDone(s) ==
    /\ Idle
    /\ sweepPc[s] \in {"logThreadExpired", "logError"}
    /\ IF Log(sinkUp) = "resolved"
       THEN SweepAdvance(s)
       ELSE IF sweepPc[s] = "logThreadExpired"
       THEN /\ sweepPc' = [sweepPc EXCEPT ![s] = "logError"]
            /\ sweepError' = [sweepError EXCEPT ![s] = Uncoded]
            /\ UNCHANGED sweepList
       ELSE /\ sweepList' = [sweepList EXCEPT ![s] = <<>>]
            /\ sweepPc' = [sweepPc EXCEPT ![s] = "idle"]
            /\ sweepError' = [sweepError EXCEPT ![s] = Success]
    /\ UNCHANGED <<records, platform, now, gate, pc, evKind, evLocals,
                   cleanupIntervalId, sinkUp>>

\* A variant of stopCleanupJob that also abandons the runs in progress.
StopAbortsRuns ==
    /\ Idle
    /\ cleanupIntervalId
    /\ cleanupIntervalId' = FALSE
    /\ sweepPc' = [s \in SweepRuns |-> "idle"]
    /\ sweepList' = [s \in SweepRuns |-> <<>>]
    /\ sweepError' = [s \in SweepRuns |-> Success]
    /\ UNCHANGED <<records, platform, now, gate, pc, evKind, evLocals, sinkUp>>

\* stopCleanupJob: clearInterval; runs in progress go on.
StopCleanupJob ==
    /\ Idle
    /\ cleanupIntervalId
    /\ cleanupIntervalId' = FALSE
    /\ UNCHANGED <<records, platform, now, gate, pc, evKind, evLocals, sweepPc,
                   sweepList, sweepError, sinkUp>>

\* ------------------------------------------------------------------- Init
\* State after start-up with store `recs`, whose threads are in state `e` on the
\* platform, and `n` messages to come.
StartWith(recs, e, time, n, up) ==
    /\ records = recs
    /\ ext = e
    /\ nextTid = Len(recs) + 1
    /\ now = time
    /\ threadCreationInProgress = [u \in Users |-> 0]
    /\ waitq = [x \in Events |-> <<>>]
    /\ microtasks = <<>>
    /\ pc = [x \in Events |-> IF x <= n THEN "new" ELSE "unused"]
    /\ evUser = [x \in Events |-> ""]
    /\ evKind = [x \in Events |-> ""]
    /\ activeThread = [x \in Events |-> 0]
    /\ verdict = [x \in Events |-> ""]
    /\ thread = [x \in Events |-> 0]
    /\ newAttemptCount = [x \in Events |-> -1]
    /\ warning = [x \in Events |-> NoWarningYet]
    /\ dmSuccess = [x \in Events |-> ""]
    /\ kick = [x \in Events |-> ""]
    /\ undeleted = {}
    /\ delPending = {}
    /\ cleanupIntervalId = TRUE
    /\ sweepPc = [s \in SweepRuns |-> "idle"]
    /\ sweepList = [s \in SweepRuns |-> <<>>]
    /\ sweepError = [s \in SweepRuns |-> Success]
    /\ sinkUp = up

\* The same with the logging channel in place.
Start(recs, e, time, n) == StartWith(recs, e, time, n, TRUE)

NoThreads == [t \in ThreadIds |-> "none"]

\* u1's active session in the store: created at time 0, with k attempts counted.
StoredSession(k) == [CreateThread(<<>>, "u1", 1, 0) EXCEPT ![1].attempt_count = k]

\* A first start: the table was just created, empty.
Init == Start(<<>>, NoThreads, 0, MaxEvents)

\* Concurrent first contacts: a first start over an empty table.
InitBurst == Start(<<>>, NoThreads, 0, MaxBurst)

\* A restart over a stored table: empty, or holding u1's active session, created one
\* tick ago, its thread in any state on the platform.
InitGate ==
    \/ Start(<<>>, NoThreads, TickMs, MaxGate)
    \/ \E st \in {"open", "locked", "archived", "deleted"} :
         Start(StoredSession(0), [NoThreads EXCEPT ![1] = st], TickMs, MaxGate)

\* A restart over u1's active session, its thread open, with up to MaxInitAttempts
\* attempts counted.
InitDup ==
    \E k \in 0..MaxInitAttempts :
        Start(StoredSession(k), [NoThreads EXCEPT ![1] = "open"], TickMs, MaxDup)

\* The steps of handleMessage for a message of user u that passes the entry checks.
MessageSteps(u) ==
    \/ \E e \in Events : HandleMessage(e, u, "gated")
    \/ \E e \in Events : ResumeWaiter(e)
    \/ \E e \in Events : VerifyDone(e)
    \/ \E e \in Events : Reconcile(e)
    \/ \E e \in Events : StartThreadDone(e)
    \/ \E e \in Events : RollbackDone(e)
    \/ \E e \in Events : LogThreadCreatedDone(e)
    \/ \E e \in Events : LogCreateErrorDone(e)
    \/ \E e \in Events : NotifyErrorDone(e)
    \/ \E e \in Events : NoPermissionLogged(e)
    \/ \E e \in Events : DeleteMessageDone(e)
    \/ \E e \in Events : SendDMDone(e)
    \/ \E e \in Events : LogMessageDeletedDone(e)
    \/ \E e \in Events : LogEndDone(e)

\* Threads deleted or archived on the platform, and the threadDelete handler.
ThreadEvents ==
    \/ \E t \in ThreadIds : ExternalDelete(t)
    \/ \E t \in ThreadIds : ExternalArchive(t)
    \/ \E t \in ThreadIds : HandleThreadDelete(t)

\* The expiry sweeper and its clock.
SweeperSteps ==
    \/ Tick
    \/ \E s \in SweepRuns : SweepStart(s)
    \/ \E s \in SweepRuns : SweepFetchDone(s)
    \/ \E s \in SweepRuns : SweepLockDone(s)
    \/ \E s \in SweepRuns : SweepArchiveDone(s)
    \/ \E s \in SweepRuns : SweepLogDone(s)
    \/ StopCleanupJob

\* The whole bot, from a first start.  (No session reaches the kick threshold
\* within MaxEvents messages: member.kick is a step of NextDup.)
Next ==
    \/ \E u \in Users : MessageSteps(u)
    \/ \E e \in Events, u \in Users, k \in Kinds \ {"gated"} : HandleMessage(e, u, k)
    \/ ThreadEvents
    \/ SweeperSteps

Spec == Init /\ [][Next]_vars

\* Concurrent first messages of u1 over an empty store.
NextBurst == MessageSteps("u1")

SpecBurst == InitBurst /\ [][NextBurst]_vars

\* Messages of u1 over a stored session whose thread may be gone, closed or open,
\* with threads deleted and archived on the platform meanwhile.
NextGate == MessageSteps("u1") \/ ThreadEvents

SpecGate == InitGate /\ [][NextGate]_vars

\* Repeat messages of u1, whose stored session has attempts counted.
NextDup == MessageSteps("u1") \/ \E e \in Events : KickDone(e)

SpecDup == InitDup /\ [][NextDup]_vars

\* Two sessions in the store, of u1 (created at 0) and of u2 (created at c2).
TwoSessions(c2) == CreateThread(CreateThread(<<>>, "u1", 1, 0), "u2", 2, c2)

\* The sweeper over a stored table of two sessions, their threads open, none
\* expired yet: u2's session expires with u1's, or exactly at the second tick.
InitSweep ==
    \E c2 \in {0, 2 * TickMs - TTL} :
        Start(TwoSessions(c2), [NoThreads EXCEPT ![1] = "open", ![2] = "open"], TickMs, 0)

NextSweep == SweeperSteps \/ ThreadEvents

SpecSweep == InitSweep /\ [][NextSweep]_vars

\* The sweeper while its interval stays set (stopCleanupJob is not called).
NextSweepLive ==
    \/ Tick
    \/ \E s \in SweepRuns : SweepStart(s)
    \/ \E s \in SweepRuns : SweepFetchDone(s)
    \/ \E s \in SweepRuns : SweepLockDone(s)
    \/ \E s \in SweepRuns : SweepArchiveDone(s)
    \/ \E s \in SweepRuns : SweepLogDone(s)
    \/ ThreadEvents

\* Outcomes of a platform call other than a transient failure.
Settled == {Success} \cup PermanentErrorCodes

\* setInterval keeps starting runs and every awaited log call settles (weak
\* fairness); the platform does not answer a run's fetch, lock or archive calls
\* with transient failures forever (strong fairness on the other outcomes).
SweepFairness ==
    \A s \in SweepRuns :
        /\ WF_vars(SweepStart(s))
        /\ WF_vars(SweepLogDone(s))
        /\ SF_vars(\E o \in Settled : SweepFetched(s, o))
        /\ SF_vars(\E o \in Settled : SweepLocked(s, o))
        /\ SF_vars(\E o \in Settled : SweepArchived(s, o))

SpecSweepLive == InitSweep /\ [][NextSweepLive]_vars /\ SweepFairness

\* A stored table of two rows, in insertion order: each of either user, active or
\* not, the second created with the first or one tick later.
StoredPairs ==
    {[CreateThread(CreateThread(<<>>, ua, 1, 0), ub, 2, cb)
          EXCEPT ![1].is_active = aa, ![2].is_active = ab] :
        ua \in Users, ub \in Users, cb \in {0, TickMs}, aa \in {0, 1}, ab \in {0, 1}}

\* Messages of u1 over any such table, the threads open, before or after the
\* expiry of the first row.
InitLookup ==
    \E recs \in StoredPairs, time \in {TickMs, 2 * TickMs} :
        Start(recs, [NoThreads EXCEPT ![1] = "open", ![2] = "open"], time, MaxLookup)

NextLookup == MessageSteps("u1")

SpecLookup == InitLookup /\ [][NextLookup]_vars

\* Messages of u1 over its stored session, whose thread was archived.
InitWait == Start(StoredSession(0), [NoThreads EXCEPT ![1] = "archived"], TickMs, MaxWait)

NextWait == MessageSteps("u1")

SpecWait == InitWait /\ [][NextWait]_vars

\* Messages of both users, over an empty table or over u1's session with its
\* thread open.
InitPair ==
    \/ Start(<<>>, NoThreads, TickMs, MaxPair)
    \/ Start(StoredSession(0), [NoThreads EXCEPT ![1] = "open"], TickMs, MaxPair)

NextPair == \E u \in Users : MessageSteps(u)

SpecPair == InitPair /\ [][NextPair]_vars

\* Messages of u1 and the sweeper over u1's session, expired and its thread
\* open, one attempt short of the kick threshold, the logging channel in place
\* or not.
InitSink ==
    \E up \in BOOLEAN :
        StartWith(StoredSession(KickThreshold - 1), [NoThreads EXCEPT ![1] = "open"],
                  2 * TickMs, MaxSink, up)

NextSink ==
    \/ MessageSteps("u1")
    \/ \E e \in Events : KickDone(e)
    \/ \E s \in SweepRuns : SweepStart(s)
    \/ \E s \in SweepRuns : SweepFetchDone(s)
    \/ \E s \in SweepRuns : SweepLockDone(s)
    \/ \E s \in SweepRuns : SweepArchiveDone(s)
    \/ \E s \in SweepRuns : SweepLogDone(s)

SpecSink == InitSink /\ [][NextSink]_vars

\* The sweeper with its shutdown, every awaited call of a run settling.
SpecStop == InitSweep /\ [][NextSweep]_vars /\ SweepFairness

\* ================================================================ properties
Creating == {"startThread", "rollback", "logThreadCreated", "logCreateError", "notifyError"}

\* Events of user u whose createNewThread has started and not yet returned.
OpensInFlight(u) == {e \in Events : evUser[e] = u /\ pc[e] \in Creating}

Live(t) == ext[t] \in {"open", "locked", "archived"}

Tracked(t) == \E i \in RowIds(records) : records[i].thread_id = t

RowsOfThread(t) == {i \in RowIds(records) : records[i].thread_id = t}

\* C1: in every reachable state each user has at most one session record with
\* is_active = 1.
C1_OneActiveRecordPerUser ==
    \A u \in Users : Cardinality(ActiveRows(records, u)) <= 1

\* C2: concurrent first contacts of a user without a session record open one session:
\* the user never has two sessions that are open on the platform and active in the store.
C2_OneSessionPerBurst ==
    \A u \in Users :
        Cardinality({i \in ActiveRows(records, u) : ext[records[i].thread_id] = "open"}) <= 1

\* C3: at every moment at most one session-open (createNewThread) is in flight per user.
C3_OneOpenInFlight ==
    \A u \in Users : Cardinality(OpensInFlight(u)) <= 1

\* The step in which event e's message discard succeeded and incrementAttempts ran.
Counting(e) == pc[e] = "deleteMessage" /\ pc'[e] = "sendDM"

\* C4: attempt counting loses no update.  Every duplicate attempt whose discard
\* succeeds adds exactly 1 to the attempt_count of the user's active record and
\* returns that new value; no other step changes an attempt_count; and two
\* concurrent attempts counted on a session that is still active hold different
\* returned values.
C4_NoLostUpdates ==
    /\ [][/\ \A e \in Events : Counting(e) =>
               /\ \A i \in RowIds(records) :
                    records'[i].attempt_count = records[i].attempt_count
                        + (IF i \in ActiveRows(records, evUser[e]) THEN 1 ELSE 0)
               /\ newAttemptCount'[e] \in
                    IF ActiveRows(records, evUser[e]) = {} THEN {0}
                    ELSE {records[i].attempt_count + 1 :
                            i \in GetActiveThread(records, evUser[e])}
          /\ (\A e \in Events : ~Counting(e)) =>
               \A i \in RowIds(records) :
                    records'[i].attempt_count = records[i].attempt_count]_vars
    /\ [](\A d, e \in Events :
            /\ d # e
            /\ evUser[d] = evUser[e]
            /\ newAttemptCount[d] # -1
            /\ newAttemptCount[e] # -1
            /\ activeThread[d] = activeThread[e]
            /\ \E i \in ActiveRows(records, evUser[e]) :
                   records[i].thread_id = activeThread[e]
            => newAttemptCount[d] # newAttemptCount[e])

\* Two duplicate attempts of one user are in flight, both counted on the session
\* that is still active.
C4_Witness ==
    \E d, e \in Events :
        /\ d # e
        /\ evUser[d] = evUser[e]
        /\ newAttemptCount[d] > 0
        /\ newAttemptCount[e] = newAttemptCount[d] + 1
        /\ activeThread[d] = activeThread[e]
        /\ \E i \in ActiveRows(records, evUser[e]) :
               /\ records[i].thread_id = activeThread[e]
               /\ records[i].attempt_count = newAttemptCount[e]

\* C5 as claimed: in no reachable state does an external session exist without a
\* local record tracking it.
C5_NoOrphanSession ==
    \A t \in ThreadIds : Live(t) => Tracked(t)

\* C5 as amended: when persisting fails the destroy is attempted before the error is
\* surfaced, and an external session exists without a local record only while that
\* destroy is pending or when the destroy call itself failed.
C5_OrphanOnlyIfDestroyFailed ==
    /\ \A t \in ThreadIds :
         Live(t) /\ ~Tracked(t) =>
             \/ \E e \in Events : pc[e] = "rollback" /\ thread[e] = t
             \/ t \in undeleted
    /\ \A e \in Events :
         pc[e] \in {"logCreateError", "notifyError"} /\ thread[e] # 0 =>
             \/ ext[thread[e]] = "deleted"
             \/ thread[e] \in undeleted

\* A persist failure whose compensating destroy succeeded, the error being surfaced.
C5_Witness ==
    \E e \in Events :
        /\ pc[e] = "logCreateError"
        /\ thread[e] # 0
        /\ ext[thread[e]] = "deleted"
        /\ ~Tracked(thread[e])

KickTested(e) == pc[e] = "logMessageDeleted" /\ pc'[e] # "logMessageDeleted"

\* kickUser has been called for event e.
KickUserCalled(e) == pc[e] = "kickMember" \/ kick[e] # ""

C9_WarningPolicy ==
    \A e \in Events :
        warning[e].kind # "unsent" =>
            LET n == newAttemptCount[e] IN
            /\ n < 7 => warning[e].kind = "none"
            /\ 7 <= n /\ n < 10 =>
                 warning[e].kind = "remaining" /\ warning[e].remaining = 10 - n
            /\ n >= 10 => warning[e].kind = "final"

\* C9 as amended: no warning when n < 7, 10 - n attempts remaining when 7 <= n <= 10
\* (0 remaining at n = 10), the final warning only when n > 10.
C9_WarningPolicyAsCoded ==
    \A e \in Events :
        warning[e].kind # "unsent" =>
            LET n == newAttemptCount[e] IN
            /\ n < 7 => warning[e].kind = "none"
            /\ 7 <= n /\ n <= 10 =>
                 warning[e].kind = "remaining" /\ warning[e].remaining = 10 - n
            /\ n > 10 => warning[e].kind = "final"

\* The 10th counted attempt was warned of 0 attempts remaining.
C9_Witness ==
    \E e \in Events :
        /\ newAttemptCount[e] = 10
        /\ warning[e] = [kind |-> "remaining", remaining |-> 0]

\* C10: the duplicate attempt that brings attempt_count to 10 triggers the kick.
C10_KickAtTenAttempts ==
    [][\A e \in Events :
         KickTested(e) /\ newAttemptCount[e] = 10 =>
             pc'[e] = "kickMember" \/ kick'[e] = "noPermission"]_vars

Notified(e) == pc[e] = "sendDM" /\ pc'[e] # "sendDM"

\* C12: a notification that cannot be delivered is not fatal.  The step in which
\* it fails changes no record and leads to the same next await as a delivery; the
\* count taken for the event is kept; and the kick test is made on that count just
\* as after a delivery.
C12_NotifyFailureNonFatal ==
    /\ [](\A e \in Events :
            dmSuccess[e] = "failed" =>
                /\ pc[e] \in {"logMessageDeleted", "kickMember", "logEnd"}
                /\ newAttemptCount[e] >= 0)
    /\ [][\A e \in Events :
            /\ Notified(e) =>
                 /\ pc'[e] = "logMessageDeleted"
                 /\ records' = records
                 /\ newAttemptCount'[e] = newAttemptCount[e]
            /\ KickTested(e) /\ dmSuccess[e] = "failed" =>
                 /\ records' = records
                 /\ IF newAttemptCount[e] > 10
                    THEN pc'[e] = "kickMember" \/ kick'[e] = "noPermission"
                    ELSE pc'[e] = "done"]_vars

\* An undelivered notification was followed by the kick of the 11th attempt.
C12_Witness ==
    \E e \in Events :
        /\ dmSuccess[e] = "failed"
        /\ pc[e] = "kickMember"
        /\ newAttemptCount[e] > 10

\* C13: when the count exceeds the threshold and the bot lacks the kick capability,
\* member.kick is never called and the error is logged; the count taken is kept and
\* no record changes.
C13_NoKickWithoutCapability ==
    /\ [](\A e \in Events :
            kick[e] = "noPermission" =>
                /\ pc[e] = "logEnd"
                /\ newAttemptCount[e] > KickThreshold)
    /\ [][\A e \in Events :
            /\ kick'[e] = "noPermission" /\ kick[e] # "noPermission" =>
                 /\ KickTested(e)
                 /\ records' = records
            /\ kick[e] = "noPermission" /\ pc'[e] # pc[e] =>
                 /\ pc'[e] = "done"
                 /\ records' = records]_vars

\* The missing kick capability is being logged; the counted attempt is in the store.
C13_Witness ==
    \E e \in Events :
        /\ kick[e] = "noPermission"
        /\ pc[e] = "logEnd"
        /\ \E i \in ActiveRows(records, evUser[e]) :
               records[i].attempt_count = newAttemptCount[e]

\* Event e arrives and fails one of the entry checks named by the claim.
Ignored(e) ==
    /\ pc[e] = "new"
    /\ evKind'[e] \in {"exempt", "bot", "otherChannel"}

\* C14: a message of an exempt member, of a bot, or in another channel is a no-op:
\* the handler returns at once; records, in-progress markers, waiters and threads
\* are unchanged, and no discard, notification or removal is started.
C14_IgnoredIsNoOp ==
    [][\A e \in Events :
         Ignored(e) =>
             /\ pc'[e] = "done"
             /\ records' = records
             /\ gate' = gate
             /\ platform' = platform
             /\ evLocals' = evLocals
             /\ \A d \in Events \ {e} : pc'[d] = pc[d]]_vars

\* An ignored message has been handled while a session of the store is active.
C14_Witness ==
    \E e \in Events :
        /\ evKind[e] \in {"exempt", "bot", "otherChannel"}
        /\ pc[e] = "done"
        /\ \E u \in Users : ActiveRows(records, u) # {}

\* Thread ids deactivateThread may be called with: those of rows, and unknown ones.
AnyThreadId == ThreadIds \cup {0}

\* C15: deactivateThread is idempotent and total.  On every store the bot reaches,
\* and for every thread id, known or not: deactivating twice gives the store that
\* deactivating once gives; deactivating an id with no active row leaves the store
\* as it is; and the result has every row of the store, none of that id active.
C15_DeactivateIdempotent ==
    \A t \in AnyThreadId :
        LET once == DeactivateThread(records, t) IN
        /\ DeactivateThread(once, t) = once
        /\ (\A i \in RowsOfThread(t) : records[i].is_active = 0) => once = records
        /\ Len(once) = Len(records)
        /\ \A i \in RowIds(once) :
             /\ once[i].thread_id = t => once[i].is_active = 0
             /\ once[i].thread_id # t => once[i] = records[i]

\* Two handlers have each called deactivateThread on the same thread id, and the
\* store holds that session inactive beside a later one.
C15_Witness ==
    \E d, e \in Events :
        /\ d # e
        /\ activeThread[d] # 0
        /\ activeThread[d] = activeThread[e]
        /\ pc[d] \in Creating
        /\ pc[e] \in Creating
        /\ \A i \in RowsOfThread(activeThread[e]) : records[i].is_active = 0
        /\ Len(records) > 1

\* C16: records move only from active to inactive and are never deleted: in every
\* step every row stays, keeps its user and thread, and is active after the step
\* only if it was active before.
C16_ActiveToInactiveOnly ==
    [][/\ Len(records') >= Len(records)
       /\ \A i \in RowIds(records) :
            /\ records'[i].user_id = records[i].user_id
            /\ records'[i].thread_id = records[i].thread_id
            /\ records'[i].is_active <= records[i].is_active]_vars

\* A sweep has closed a session, and the store holds a later, active one.
C16_Witness ==
    /\ \E s \in SweepRuns :
         /\ sweepPc[s] = "logThreadExpired"
         /\ \A i \in RowsOfThread(Head(sweepList[s])) : records[i].is_active = 0
    /\ \E i \in RowIds(records) : records[i].is_active = 1

\* C17: every record has expires_at = created_at + 24 h from its creation on; no
\* step changes the created_at or expires_at of a record; and the session a sweep
\* has closed is inactive.
C17_ExpiryFixedAtCreation ==
    /\ [](\A i \in RowIds(records) :
            records[i].expires_at = records[i].created_at + 86400000)
    /\ [](\A s \in SweepRuns :
            sweepPc[s] = "logThreadExpired" =>
                \A i \in RowsOfThread(Head(sweepList[s])) : records[i].is_active = 0)
    /\ [][\A i \in RowIds(records) :
            /\ records'[i].created_at = records[i].created_at
            /\ records'[i].expires_at = records[i].expires_at]_vars

\* A sweep has locked, archived and closed an expired session.
C17_Witness ==
    \E s \in SweepRuns :
        /\ sweepPc[s] = "logThreadExpired"
        /\ ext[Head(sweepList[s])] = "archived"
        /\ \E i \in RowsOfThread(Head(sweepList[s])) :
               /\ records[i].is_active = 0
               /\ records[i].expires_at < now

\* C18: a record is created active with attempt_count = 0; the attempt_count of a
\* record never decreases, and it grows, by exactly 1, in just the steps that
\* count a duplicate attempt of the record's user while the record is active.
C18_AttemptCountMonotone ==
    [][/\ \A i \in RowIds(records') \ RowIds(records) :
            records'[i].attempt_count = 0 /\ records'[i].is_active = 1
       /\ \A i \in RowIds(records) :
            records'[i].attempt_count = records[i].attempt_count
                + (IF \E e \in Events :
                         Counting(e) /\ i \in ActiveRows(records, evUser[e])
                   THEN 1 ELSE 0)]_vars

\* The session an event created has had a later attempt counted.
C18_Witness ==
    \E i \in RowIds(records) :
        /\ records[i].is_active = 1
        /\ records[i].attempt_count = 1
        /\ \E e \in Events : newAttemptCount[e] = 1 /\ activeThread[e] = records[i].thread_id

\* C19: a user can create only one thread per 24 hours: any two session records of
\* one user were created at least 24 hours apart.
C19_OneThreadPer24Hours ==
    \A i, j \in RowIds(records) :
        i < j /\ records[i].user_id = records[j].user_id =>
            records[j].created_at - records[i].created_at >= 86400000

\* C20: sweeper runs never overlap: at most one run of cleanupExpiredThreads is
\* in progress at any moment.
C20_SweepsNeverOverlap ==
    Cardinality({s \in SweepRuns : sweepPc[s] # "idle"}) <= 1

Range(q) == {q[k] : k \in DOMAIN q}

\* Run s enters the catch block of the loop body.
Caught(s) == sweepPc[s] \in {"fetch", "setLocked", "setArchived"} /\ sweepPc'[s] = "logError"

\* Run s gets null from its fetch (Unknown Channel) and goes to the next element.
NotFoundBySweep(s) == sweepPc[s] = "fetch" /\ sweepList'[s] = Tail(sweepList[s])

\* C21: a fault raised while fetching, locking or archiving an expired session
\* that is neither not-found nor one of the permanent classes leaves every record
\* as it was; the session, if active, is listed again by a sweep starting then.
C21_TransientLeavesRecord ==
    [][\A s \in SweepRuns :
         Caught(s) /\ sweepError'[s] \notin PermanentErrorCodes =>
             /\ records' = records
             /\ ext' = ext
             /\ \A i \in RowsOfThread(Head(sweepList[s])) :
                  records[i].is_active = 1 =>
                      Head(sweepList[s]) \in Range(GetExpiredThreads(records', now'))]_vars

\* A network error on an expired session is being logged; the session is active.
C21_Witness ==
    \E s \in SweepRuns :
        /\ sweepPc[s] = "logError"
        /\ sweepError[s] = Uncoded
        /\ \A i \in RowsOfThread(Head(sweepList[s])) : records[i].is_active = 1
        /\ Head(sweepList[s]) \in Range(GetExpiredThreads(records, now))

\* C22: a fault of a permanent class (unknown channel, unknown guild, missing
\* access, missing permissions) on an expired session deactivates the session in
\* the step that catches it, and a sweep starting then does not list it.
C22_PermanentFaultDeactivates ==
    [][\A s \in SweepRuns :
         Caught(s) /\ sweepError'[s] \in {10003, 10004, 50001, 50013} =>
             /\ \A i \in RowsOfThread(Head(sweepList[s])) : records'[i].is_active = 0
             /\ Head(sweepList[s]) \notin Range(GetExpiredThreads(records', now'))
             /\ \A i \in RowIds(records) :
                  records[i].thread_id # Head(sweepList[s]) => records'[i] = records[i]]_vars

\* Missing Access on a thread that still exists has deactivated its session.
C22_Witness ==
    \E s \in SweepRuns :
        /\ sweepPc[s] = "logError"
        /\ sweepError[s] = 50001
        /\ ext[Head(sweepList[s])] \in {"open", "locked", "archived"}
        /\ Head(sweepList[s]) \notin delPending
        /\ \A i \in RowsOfThread(Head(sweepList[s])) : records[i].is_active = 0

\* C23: failures are isolated per record.  A run's list loses elements only from
\* its head, one at a time; after the log of a failure the run goes on with the
\* next listed session, and it ends only when its list is used up.
C23_FailuresIsolated ==
    /\ [](\A s \in SweepRuns : sweepPc[s] = "idle" <=> sweepList[s] = <<>>)
    /\ [][\A s \in SweepRuns :
            /\ sweepList[s] # <<>> /\ sweepList'[s] # sweepList[s] =>
                 sweepList'[s] = Tail(sweepList[s])
            /\ sweepPc[s] = "logError" /\ sweepPc'[s] # "logError" =>
                 /\ sweepList'[s] = Tail(sweepList[s])
                 /\ sweepPc'[s] = IF Tail(sweepList[s]) = <<>> THEN "idle" ELSE "fetch"]_vars

\* A run that listed both sessions failed transiently on the first, which is still
\* active, and is processing the second.
C23_Witness ==
    \E s \in SweepRuns :
        /\ sweepList[s] = <<2>>
        /\ sweepPc[s] = "setLocked"
        /\ records[1].is_active = 1
        /\ records[1].expires_at = records[2].expires_at
        /\ \A r \in SweepRuns \ {s} : sweepPc[r] = "idle"

\* C24: sweep idempotence on a session that is not found.  The run that gets
\* not-found makes no change on the platform and leaves the session inactive, and
\* leaves the store as it is when the session was inactive already; a run that
\* starts lists active sessions only, so a second run makes no call, write or
\* report for a session the first run closed.
C24_SweepIdempotent ==
    [][\A s \in SweepRuns :
         /\ NotFoundBySweep(s) =>
              /\ ext' = ext
              /\ \A i \in RowsOfThread(Head(sweepList[s])) : records'[i].is_active = 0
              /\ (\A i \in RowsOfThread(Head(sweepList[s])) : records[i].is_active = 0)
                     => records' = records
         /\ sweepPc[s] = "idle" /\ sweepPc'[s] # "idle" =>
              \A t \in Range(sweepList'[s]) :
                  \E i \in RowsOfThread(t) : records[i].is_active = 1]_vars

\* u2's session was closed by a sweep as not found (its threadDelete event is still
\* to be handled), and a later run, started after that, lists u1's session alone.
C24_Witness ==
    \E s \in SweepRuns :
        /\ sweepList[s] = <<1>>
        /\ records[1].expires_at = records[2].expires_at
        /\ records[2].is_active = 0
        /\ ext[2] = "deleted"
        /\ 2 \in delPending

\* A step of a sweeper run.
SweeperActs == sweepPc' # sweepPc

\* C26: the sweeper acts only on records that were active with expires_at < now
\* when listed.  A starting run lists exactly the threads of the active records
\* with expires_at < now; every thread a run holds has expires_at < now; and a
\* sweeper step locks, archives or deactivates only such sessions.
C26_OnlyExpiredActive ==
    /\ [](\A s \in SweepRuns : \A t \in Range(sweepList[s]) :
            \A i \in RowsOfThread(t) : records[i].expires_at < now)
    /\ [][/\ \A s \in SweepRuns :
               sweepPc[s] = "idle" /\ sweepPc'[s] # "idle" =>
                   \A t \in ThreadIds :
                       t \in Range(sweepList'[s]) <=>
                           \E i \in RowsOfThread(t) :
                               records[i].is_active = 1 /\ records[i].expires_at < now
          /\ SweeperActs =>
               /\ \A i \in RowIds(records) :
                    records'[i] # records[i] => records[i].expires_at < now
               /\ \A t \in ThreadIds :
                    ext'[t] # ext[t] =>
                        \A i \in RowsOfThread(t) : records[i].expires_at < now]_vars

\* A run is closing u1's expired session at the very time u2's session expires
\* (expires_at = now): u2's session is active and not listed.
C26_Witness ==
    \E s \in SweepRuns :
        /\ sweepList[s] = <<1>>
        /\ sweepPc[s] = "logThreadExpired"
        /\ records[2].expires_at = now
        /\ records[2].is_active = 1

\* C25: every active session whose expires_at has passed is eventually
\* deactivated, while sweeps keep running and the platform does not fail
\* transiently forever.
C25_ExpiredEventuallyClosed ==
    \A i \in 1..2 :
        (records[i].is_active = 1 /\ records[i].expires_at < now)
            ~> (records[i].is_active = 0)

\* A run has locked, archived and closed u1's expired session; u2's, expired as
\* well, is next in its list.
C25_Witness ==
    \E s \in SweepRuns :
        /\ sweepList[s] = <<1, 2>>
        /\ sweepPc[s] = "logThreadExpired"
        /\ ext[1] = "archived"
        /\ records[1].is_active = 0
        /\ records[2].is_active = 1
        /\ records[2].expires_at < now

\* Event e does the store lookup in this step: on arrival, or when resumed.
Looked(e) == pc[e] \in {"new", "waiting"} /\ pc'[e] \in {"verify", "startThread"}

C28_NotReturnedAfterExpiry ==
    [][\A e \in Events : (Looked(e) /\ pc'[e] = "verify") =>
        \A i \in RowIds(records) :
            records[i].thread_id = activeThread'[e] => now <= records[i].expires_at]_vars

\* C29: an event that arrives while an open is in flight for its user neither
\* reads the store nor starts an open before that open has completed.
C29_WaitsForInFlightOpen ==
    [][\A e \in Events, u \in Users :
        (pc[e] = "new" /\ OpensInFlight(u) # {} /\ evUser'[e] = u)
            => pc'[e] = "waiting"]_vars

\* C30: the user's entry is cleared when an open completes, on every path: no
\* entry remains once no open is in flight, every waiting event awaits an open
\* still in flight or is about to resume, and an event arriving when no open is
\* in flight and no session is active starts an open.
C30_MarkerCleared ==
    [][/\ \A u \in Users :
            OpensInFlight(u) = {} => threadCreationInProgress[u] = 0
       /\ \A e \in Events :
            /\ pc[e] = "waiting" =>
                   \/ e \in Range(microtasks)
                   \/ \E d \in Events : pc[d] \in Creating /\ e \in Range(waitq[d])
            /\ (pc[e] \in Creating /\ pc'[e] = "done") =>
                   /\ threadCreationInProgress'[evUser[e]] = 0
                   /\ microtasks' = waitq[e]
            /\ (pc[e] = "new" /\ pc'[e] \notin {"new", "done"}
                    /\ OpensInFlight(evUser'[e]) = {}
                    /\ ActiveRows(records, evUser'[e]) = {}) =>
                   pc'[e] = "startThread"]_vars

\* The first open failed and left no session; a later event of the same user is
\* opening a thread and holds the entry.
C30_Witness ==
    \E d, e \in Events :
        /\ pc[d] = "done"
        /\ pc[e] = "startThread"
        /\ threadCreationInProgress["u1"] = e
        /\ records = <<>>
        /\ \A t \in ThreadIds : ext[t] = "none"

\* Every row of thread t is inactive in recs.
Closed(recs, t) == \A i \in RowIds(recs) : recs[i].thread_id = t => recs[i].is_active = 0

\* C31: a run that finds the thread of an expired session locks it, then
\* archives it, then deactivates the record, then reports the expiry: the lock is
\* awaited only after the fetch found the thread, the archive only after the
\* lock succeeded, neither changes a record, and the record is deactivated in
\* the step in which the archive succeeds, before the report is awaited.
C31_LockArchiveCloseNotify ==
    [][\A s \in SweepRuns :
        LET t == Head(sweepList[s]) IN
        /\ (sweepPc[s] # "setLocked" /\ sweepPc'[s] = "setLocked") =>
               /\ sweepPc[s] = "fetch"
               /\ ext[t] # "deleted"
               /\ UNCHANGED <<records, ext>>
        /\ (sweepPc[s] # "setArchived" /\ sweepPc'[s] = "setArchived") =>
               /\ sweepPc[s] = "setLocked"
               /\ ext'[t] \in {"locked", "archived"}
               /\ UNCHANGED records
        /\ (sweepPc[s] # "logThreadExpired" /\ sweepPc'[s] = "logThreadExpired") =>
               /\ sweepPc[s] = "setArchived"
               /\ ext'[t] = "archived"
               /\ Closed(records', t)
               /\ \A i \in RowIds(records) :
                    records[i].thread_id # t => records'[i] = records[i]
        /\ sweepPc[s] = "logThreadExpired" => Closed(records, t)]_vars

\* A run has locked the thread of u1's expired session and awaits its archive:
\* the record is still active.
C31_Witness ==
    \E s \in SweepRuns :
        /\ sweepPc[s] = "setArchived"
        /\ Head(sweepList[s]) = 1
        /\ ext[1] = "locked"
        /\ records[1].is_active = 1

\* C32: when the fetch of an expired session's thread reports not found, the
\* record is deactivated in that step, nothing is done to any thread, no lock,
\* archive or report is awaited for it, and the run goes on with its next
\* element; a deleted thread is never locked.
C32_NotFoundDeactivates ==
    [][\A s \in SweepRuns :
        LET t == Head(sweepList[s]) IN
        /\ NotFoundBySweep(s) =>
               /\ Closed(records', t)
               /\ \A i \in RowIds(records) :
                    records[i].thread_id # t => records'[i] = records[i]
               /\ UNCHANGED ext
               /\ sweepPc'[s] = IF Tail(sweepList[s]) = <<>> THEN "idle" ELSE "fetch"
        /\ (sweepPc[s] = "fetch" /\ ext[t] = "deleted"
                /\ <<sweepPc[s], sweepList[s]>> # <<sweepPc'[s], sweepList'[s]>>) =>
               \/ NotFoundBySweep(s)
               \/ sweepPc'[s] = "logError"]_vars

\* A run found the thread of u1's expired session deleted, deactivated the record
\* and is fetching the thread of u2's.
C32_Witness ==
    \E s \in SweepRuns :
        /\ sweepPc[s] = "fetch"
        /\ sweepList[s] = <<2>>
        /\ ext[1] = "deleted"
        /\ ext[2] # "deleted"
        /\ records[1].is_active = 0
        /\ records[2].is_active = 1
        /\ \A r \in SweepRuns \ {s} : sweepPc[r] = "idle"

\* The threadDelete handler runs for thread t in this step.
ThreadDeleteHandled(t) == t \in delPending /\ t \notin delPending'

\* C33: the handler of a thread-deletion event sets is_active = 0 on exactly the
\* records of the deleted thread and changes no other record and no other
\* field; for a thread that has no record the table stays as it is.
C33_DeleteDeactivatesOnlyItsRows ==
    [][\A t \in ThreadIds : ThreadDeleteHandled(t) =>
        /\ Len(records') = Len(records)
        /\ \A i \in RowIds(records) :
             records'[i] = IF records[i].thread_id = t
                           THEN [records[i] EXCEPT !.is_active = 0]
                           ELSE records[i]
        /\ ~Tracked(t) => records' = records]_vars

\* The first thread of u1 was deleted and its deletion handled after u1 got a
\* second session: the first record is inactive, the second still active.
C33_Witness ==
    /\ Len(records) = 2
    /\ ext[1] = "deleted"
    /\ 1 \notin delPending
    /\ records[1].is_active = 0
    /\ records[2].user_id = records[1].user_id
    /\ records[2].is_active = 1

\* C34: messages of different users do not block each other.  A message waits
\* only on the entry of its own author, and then for an open of that author; with
\* no such entry it goes on to the lookup at once, whatever the other users'
\* entries; and a step changes a user's entry only on behalf of a message of
\* that user.
C34_UsersIndependent ==
    [][/\ \A e \in Events :
            (pc[e] = "new" /\ pc'[e] \notin {"new", "done"}) =>
                LET u == evUser'[e] IN
                /\ threadCreationInProgress[u] = 0 => pc'[e] \in {"verify", "startThread"}
                /\ pc'[e] = "waiting" =>
                       \E d \in OpensInFlight(u) : e \in Range(waitq'[d])
                /\ \A v \in Users \ {u} :
                       threadCreationInProgress'[v] = threadCreationInProgress[v]
       /\ \A v \in Users :
            threadCreationInProgress'[v] # threadCreationInProgress[v] =>
                \E e \in Events :
                    /\ pc'[e] # pc[e]
                    /\ evUser[e] = v \/ evUser'[e] = v]_vars

\* While u2's open is in flight and holds u2's entry, a later message of u1 is
\* past its lookup: routed to the verification of u1's session.
C34_Witness ==
    \E d, e \in Events :
        /\ d < e
        /\ evUser[d] = "u2"
        /\ pc[d] = "startThread"
        /\ threadCreationInProgress["u2"] = d
        /\ evUser[e] = "u1"
        /\ pc[e] = "verify"

\* Run s takes a step.
RunSteps(s) == <<sweepPc[s], sweepList[s]>> # <<sweepPc'[s], sweepList'[s]>>

\* C35: with the logging channel failing, a log call still settles without
\* raising and without changing a record, and the flow goes on: createNewThread
\* returns after logThreadCreated and the user's entry is cleared, the kick test
\* follows logMessageDeleted, the handler returns after its last log call, and a
\* sweep run goes to its next element after logThreadExpired or logError.
C35_SinkFailureSwallowed ==
    [][~sinkUp =>
        /\ \A e \in Events :
             /\ (pc[e] = "logThreadCreated" /\ pc'[e] # pc[e]) =>
                    /\ pc'[e] = "done"
                    /\ threadCreationInProgress'[evUser[e]] = 0
                    /\ UNCHANGED records
             /\ (pc[e] = "logMessageDeleted" /\ pc'[e] # pc[e]) =>
                    /\ UNCHANGED records
                    /\ IF ShouldKick(newAttemptCount[e])
                       THEN pc'[e] = "kickMember" \/ kick'[e] = "noPermission"
                       ELSE pc'[e] = "done"
             /\ (pc[e] = "logCreateError" /\ pc'[e] # pc[e]) =>
                    /\ UNCHANGED records
                    /\ pc'[e] = IF thread[e] # 0 THEN "notifyError" ELSE "done"
             /\ (pc[e] \in {"logNoPermission", "logEnd"} /\ pc'[e] # pc[e]) =>
                    /\ UNCHANGED records
                    /\ pc'[e] = "done"
        /\ \A s \in SweepRuns :
             (sweepPc[s] \in {"logThreadExpired", "logError"} /\ RunSteps(s)) =>
                    /\ UNCHANGED records
                    /\ sweepList'[s] = Tail(sweepList[s])
                    /\ sweepPc'[s] = IF Tail(sweepList[s]) = <<>> THEN "idle" ELSE "fetch"]_vars

\* With the logging channel failing, the eleventh attempt of u1 was logged and
\* the kick test followed: member.kick is awaited.
C35_Witness ==
    \E e \in Events :
        /\ ~sinkUp
        /\ pc[e] = "kickMember"
        /\ newAttemptCount[e] = KickThreshold + 1

C37_CountedOnClassifiedSession ==
    [][\A e \in Events : (pc[e] = "deleteMessage" /\ pc'[e] = "sendDM") =>
        /\ \A i \in RowIds(records) :
             records'[i] # records[i] => records[i].thread_id = activeThread[e]
        /\ newAttemptCount'[e] > 0 =>
             \E i \in RowIds(records) :
                 /\ records[i].thread_id = activeThread[e]
                 /\ records'[i].attempt_count = newAttemptCount'[e]]_vars

\* C38: removal neither deactivates the session nor resets its counter.  The
\* kick test and the kick change no record; while kickUser is in progress the
\* session, if still active, holds more than 10 attempts; and a later attempt
\* counted while that session is active with more than 10 attempts returns a
\* count above 10 again, on which kickUser is called again.
C38_KickLeavesSession ==
    /\ [](\A e \in Events : KickUserCalled(e) =>
            \A i \in RowsOfThread(activeThread[e]) :
                records[i].is_active = 1 => records[i].attempt_count > KickThreshold)
    /\ [][\A e \in Events :
            /\ (KickTested(e) \/ (pc[e] = "kickMember" /\ pc'[e] # pc[e])) =>
                   UNCHANGED records
            /\ (Counting(e) /\ \E i \in RowsOfThread(activeThread[e]) :
                                  /\ records[i].is_active = 1
                                  /\ records[i].attempt_count > KickThreshold) =>
                   newAttemptCount'[e] > KickThreshold + 1
            /\ (KickTested(e) /\ newAttemptCount[e] > KickThreshold + 1) =>
                   pc'[e] = "kickMember" \/ kick'[e] = "noPermission"]_vars

\* The eleventh attempt led to a kick; the session stayed active, the twelfth
\* attempt was counted on it and member.kick is awaited again.
C38_Witness ==
    \E d, e \in Events :
        /\ pc[d] = "done"
        /\ pc[e] = "kickMember"
        /\ newAttemptCount[e] = KickThreshold + 2
        /\ records[1].is_active = 1
        /\ records[1].attempt_count = KickThreshold + 2

\* The positions of handleExistingThread.
Duplicate == {"logNoPermission", "deleteMessage", "sendDM", "logMessageDeleted",
              "kickMember", "logEnd"}

====
